---------------------------- MODULE Spec2Model ----------------------------
(***************************************************************************)
(* Model of Final_Project.py: the historical fetch, the indicator engine,  *)
(* the merge of live rows into the series (update_df), the signal rule     *)
(* (predict_signal) and the polling loop of main.                          *)
(*                                                                         *)
(* A DataFrame is a record [isNone, rows]; rows is a sequence of rows, a   *)
(* row is a function from column names to values.  The Date column holds   *)
(* an integer day number; every other column holds a cell [k, v] where k   *)
(* is "num" (the number v), "nan" (float NaN) or "none" (Python None).     *)
(* Prices and indicator values are integers (fixed point, floor division). *)
(***************************************************************************)
EXTENDS Integers, Sequences, FiniteSets, TLC

VARIABLES
    pc,          \* position of the running code
    today,       \* datetime.today(), as a day number
    df,          \* main's df (for update_df alone: its result)
    existing,    \* the df that was passed to the last update_df call
    live_data,   \* main's live_data / update_df's live_df
    latest,      \* main's latest / predict_signal's row
    signal,      \* main's signal / predict_signal's return value
    tickOut,     \* the lines printed since the current iteration began
    printed,     \* the messages main printed outside the iteration body
    exitStatus,  \* "running", "exit0", "exit1" or "KeyboardInterrupt"
    availDates,  \* dates of every record the data source has delivered
    indDates,    \* dates of the rows the last indicator computation read
    lastTick,    \* how the previous iteration ended: "none", "signal", "error"
    interruptAt, \* pc at which a KeyboardInterrupt arrived, "" if none
    daysPassed,  \* number of midnights passed since the start
    fetched      \* the historical download: "pending", "rows", "empty", "raised"

vars == <<pc, today, df, existing, live_data, latest, signal, tickOut, printed,
          exitStatus, availDates, indDates, lastTick, interruptAt, daysPassed,
          fetched>>

-----------------------------------------------------------------------------
(* Values *)

Num(x) == [k |-> "num", v |-> x]

NaN == [k |-> "nan", v |-> 0]

PyNone == [k |-> "none", v |-> 0]

None == [isNone |-> TRUE, rows |-> <<>>]

Frame(rows) == [isNone |-> FALSE, rows |-> rows]

Empty(frame) == Len(frame.rows) = 0

PriceRow(d, c, v) == [Date |-> d, Adj_Close |-> Num(c), Volume |-> Num(v)]

Dates(rows) == {rows[i].Date : i \in 1..Len(rows)}

-----------------------------------------------------------------------------
(* update_df and the pandas operations it is made of *)

\* pd.concat([df, live_df], ignore_index=True): the rows of both, over the
\* union of their columns, a column a row lacks filled with NaN.
Concat(a, b) ==
    LET all  == a \o b
        cols == UNION {DOMAIN all[i] : i \in 1..Len(all)}
    IN  [i \in 1..Len(all) |->
            [c \in cols |-> IF c \in DOMAIN all[i] THEN all[i][c] ELSE NaN]]

\* All orders of the rows of a set.
RECURSIVE Perms(_)
Perms(S) ==
    IF S = {} THEN {<<>>}
    ELSE UNION {{<<x>> \o p : p \in Perms(S \ {x})} : x \in S}

\* sort_values('Date') with the default kind='quicksort', which is not a
\* stable sort: rows come out ascending by Date, rows of equal Date in any
\* order.  The result is the set of the orders the sort may produce, as
\* sequences of indices into rows.
RECURSIVE SortOrders(_, _)
SortOrders(rows, idx) ==
    IF idx = {} THEN {<<>>}
    ELSE LET lo    == CHOOSE d \in {rows[i].Date : i \in idx} :
                          \A i \in idx : d <= rows[i].Date
             group == {i \in idx : rows[i].Date = lo}
         IN  {p \o q : p \in Perms(group), q \in SortOrders(rows, idx \ group)}

TieOrders(rows) == SortOrders(rows, 1..Len(rows))

SortValues(rows) == {[i \in 1..Len(o) |-> rows[o[i]]] : o \in TieOrders(rows)}

\* drop_duplicates left out: every row is kept.
KeepEvery(rows, i) == TRUE

KeepLast(rows, i) == \A j \in (i + 1)..Len(rows) : rows[j].Date # rows[i].Date

Kept(rows, i) == KeepLast(rows, i)

RECURSIVE Select(_, _)
Select(rows, i) ==
    IF i > Len(rows) THEN <<>>
    ELSE (IF Kept(rows, i) THEN <<rows[i]>> ELSE <<>>) \o Select(rows, i + 1)

\* drop_duplicates('Date', keep='last')
DropDuplicates(rows) == Select(rows, 1)

\* update_df without the early return of lines 133-134.
update_df_always_merges(frame, live_df) ==
    {Frame(DropDuplicates(s)) : s \in SortValues(Concat(frame.rows, live_df.rows))}

\* update_df(df, live_df): the set of the values it may return.
update_df(frame, live_df) ==
    IF live_df.isNone \/ Empty(live_df)
    THEN {frame}
    ELSE {Frame(DropDuplicates(s)) : s \in SortValues(Concat(frame.rows, live_df.rows))}

-----------------------------------------------------------------------------
(* predict_signal *)

RsiBuy == 40

RsiSell == 60

\* One Python comparison row[a] op row[b] (or a literal): "T", "F", or "E"
\* when it raises (KeyError for a missing column, TypeError for None).
\* A comparison with NaN is False.
Lookup(row, col) == IF col \in DOMAIN row THEN row[col] ELSE [k |-> "missing", v |-> 0]

Compare(x, op, y) ==
    IF x.k \in {"missing", "none"} \/ y.k \in {"missing", "none"} THEN "E"
    ELSE IF x.k = "nan" \/ y.k = "nan" THEN "F"
    ELSE IF op = ">"  THEN (IF x.v > y.v  THEN "T" ELSE "F")
    ELSE IF op = "<"  THEN (IF x.v < y.v  THEN "T" ELSE "F")
    ELSE IF op = "<=" THEN (IF x.v <= y.v THEN "T" ELSE "F")
    ELSE (IF x.v >= y.v THEN "T" ELSE "F")

\* a and b and c, left to right, stopping at the first False or exception.
And3(a, b, c) ==
    IF a # "T" THEN a ELSE IF b # "T" THEN b ELSE c

\* The BUY rule with < in place of <= at the lower band.
BuyRuleStrict(row) ==
    And3(Compare(Lookup(row, "MACD"), ">", Num(0)),
         Compare(Lookup(row, "RSI_14"), "<", Num(RsiBuy)),
         Compare(Lookup(row, "Adj_Close"), "<", Lookup(row, "Bollinger_Lower")))

BuyRule(row) ==
    And3(Compare(Lookup(row, "MACD"), ">", Num(0)),
         Compare(Lookup(row, "RSI_14"), "<", Num(RsiBuy)),
         Compare(Lookup(row, "Adj_Close"), "<=", Lookup(row, "Bollinger_Lower")))

SellRule(row) ==
    And3(Compare(Lookup(row, "MACD"), "<", Num(0)),
         Compare(Lookup(row, "RSI_14"), ">", Num(RsiSell)),
         Compare(Lookup(row, "Adj_Close"), ">=", Lookup(row, "Bollinger_Upper")))

predict_signal(row) ==
    IF BuyRule(row) = "E" THEN "HOLD"
    ELSE IF BuyRule(row) = "T" THEN "BUY"
    ELSE IF SellRule(row) = "E" THEN "HOLD"
    ELSE IF SellRule(row) = "T" THEN "SELL"
    ELSE "HOLD"

-----------------------------------------------------------------------------
(* get_indicator_data: the indicators of the ta library, in integers *)

HistoryDays == 730

WindowDays == 365

SmaWindow == 20

BollingerDev == 2

RsiWindow == 14

MacdSlow == 26

MacdFast == 12

MacdSign == 9

\* Resolution of the fixed-point averages: an exponential average of x is
\* kept as an integer in units of 1/Prec.
Prec == 1000

Close(rows, i) == rows[i].Adj_Close.v

RECURSIVE RollSum(_, _, _)
RollSum(rows, i, w) ==
    IF w = 0 THEN 0 ELSE Close(rows, i) + RollSum(rows, i - 1, w - 1)

RECURSIVE RollSumSq(_, _, _)
RollSumSq(rows, i, w) ==
    IF w = 0 THEN 0
    ELSE Close(rows, i) * Close(rows, i) + RollSumSq(rows, i - 1, w - 1)

\* Floor of the square root, by bisection on lo..hi.
RECURSIVE SqrtIn(_, _, _)
SqrtIn(n, lo, hi) ==
    IF lo >= hi THEN lo
    ELSE LET mid == (lo + hi + 1) \div 2
         IN  IF mid * mid <= n THEN SqrtIn(n, mid, hi) ELSE SqrtIn(n, lo, mid - 1)

ISqrt(n) == SqrtIn(n, 0, 46340)

\* SMAIndicator(close, 20).sma_indicator(): rolling(20, min_periods=20).mean()
SMA(rows, i) ==
    IF i < SmaWindow THEN NaN
    ELSE Num(RollSum(rows, i, SmaWindow) \div SmaWindow)

\* SmaWindow times the population standard deviation (ddof=0) of the window.
StdTimesWindow(rows, i) ==
    LET sum == RollSum(rows, i, SmaWindow)
    IN  ISqrt(SmaWindow * RollSumSq(rows, i, SmaWindow) - sum * sum)

\* BollingerBands(close, 20, 2): mavg + sign * 2 * mstd
Band(rows, i, sign) ==
    IF i < SmaWindow THEN NaN
    ELSE Num((RollSum(rows, i, SmaWindow)
              + sign * BollingerDev * StdTimesWindow(rows, i)) \div SmaWindow)

\* series.ewm(adjust=False).mean() with smoothing factor a / den:
\* y[1] = x[1], y[i] = (a * x[i] + (den - a) * y[i-1]) / den
RECURSIVE EwmFrom(_, _, _, _)
EwmFrom(xs, a, den, acc) ==
    IF Len(acc) = Len(xs) THEN acc
    ELSE LET i == Len(acc) + 1
             y == IF i = 1 THEN xs[1]
                  ELSE (a * xs[i] + (den - a) * acc[i - 1]) \div den
         IN  EwmFrom(xs, a, den, Append(acc, y))

Ewm(xs, a, den) == EwmFrom(xs, a, den, <<>>)

ScaledClose(rows) == [i \in 1..Len(rows) |-> Prec * Close(rows, i)]

\* close.diff(1) split in gains and losses; the first difference is NaN and
\* where() turns it into 0.
UpMove(rows) ==
    [i \in 1..Len(rows) |->
        IF i > 1 /\ Close(rows, i) > Close(rows, i - 1)
        THEN Prec * (Close(rows, i) - Close(rows, i - 1)) ELSE 0]

DownMove(rows) ==
    [i \in 1..Len(rows) |->
        IF i > 1 /\ Close(rows, i) < Close(rows, i - 1)
        THEN Prec * (Close(rows, i - 1) - Close(rows, i)) ELSE 0]

\* RSIIndicator(close, 14).rsi(): Wilder smoothing (alpha = 1/14,
\* min_periods = 14); 100 where the average loss is 0.
RsiColumn(rows) ==
    LET emaup == Ewm(UpMove(rows), 1, RsiWindow)
        emadn == Ewm(DownMove(rows), 1, RsiWindow)
    IN  [i \in 1..Len(rows) |->
            IF i < RsiWindow THEN NaN
            ELSE IF emadn[i] = 0 THEN Num(100)
            ELSE Num((100 * emaup[i]) \div (emaup[i] + emadn[i]))]

\* MACD(close, 26, 12, 9).macd(): EMA(12) - EMA(26), alpha = 2/(N+1),
\* min_periods = N; in units of 1/Prec.
MacdColumn(rows) ==
    LET fast == Ewm(ScaledClose(rows), 2, MacdFast + 1)
        slow == Ewm(ScaledClose(rows), 2, MacdSlow + 1)
    IN  [i \in 1..Len(rows) |->
            IF i < MacdSlow THEN NaN ELSE Num(fast[i] - slow[i])]

\* macd_signal(): EMA(9) of the defined part of the MACD column.
MacdSignalColumn(rows, macd) ==
    LET n    == Len(rows)
        defd == [j \in 1..(IF n < MacdSlow THEN 0 ELSE n - MacdSlow + 1) |->
                    macd[j + MacdSlow - 1].v]
        sig  == Ewm(defd, 2, MacdSign + 1)
    IN  [i \in 1..n |->
            IF i < MacdSlow + MacdSign - 1 THEN NaN
            ELSE Num(sig[i - MacdSlow + 1])]

Minus(x, y) == IF x.k = "num" /\ y.k = "num" THEN Num(x.v - y.v) ELSE NaN

\* Lines 55-66: the indicator columns are added to (or overwritten in) the
\* rows; columns the rows already had are kept.
WithIndicators(rows) ==
    LET rsi  == RsiColumn(rows)
        macd == MacdColumn(rows)
        sig  == MacdSignalColumn(rows, macd)
    IN  [i \in 1..Len(rows) |->
            [Date            |-> rows[i].Date,
             Adj_Close       |-> rows[i].Adj_Close,
             Volume          |-> rows[i].Volume,
             SMA_20          |-> SMA(rows, i),
             Bollinger_Upper |-> Band(rows, i, 1),
             Bollinger_Lower |-> Band(rows, i, -1),
             RSI_14          |-> rsi[i],
             MACD            |-> macd[i],
             MACD_Signal     |-> sig[i],
             MACD_Diff       |-> Minus(macd[i], sig[i])]]

InWindow(row, now) == row.Date >= now - WindowDays

RECURSIVE LastYear(_, _, _)
LastYear(rows, now, i) ==
    IF i > Len(rows) THEN <<>>
    ELSE (IF InWindow(rows[i], now) THEN <<rows[i]>> ELSE <<>>)
         \o LastYear(rows, now, i + 1)

\* get_indicator_data(df) called when datetime.today() is now: the set of
\* the values it may return (one, when the dates of df are distinct).
get_indicator_data(frame, now) ==
    {Frame(LastYear(WithIndicators(s), now, 1)) : s \in SortValues(frame.rows)}

-----------------------------------------------------------------------------
(* The data source: what yfinance may deliver *)

\* Number of rows of the history older than the 365-day window.
NOld == 20

\* Number of rows of the history inside the 365-day window.
NRecent == 27

\* Number of midnights that may pass while the loop runs.
MaxDays == 1

BasePx == 1000

Step == 5

Swing == 15

\* Days are numbered from start_date = today - 730 of the program's start.
Today0 == HistoryDays

\* A history of nOld + nRecent daily rows ending the day before Today0, the
\* price moving by Step a row in the direction trend.
History(nOld, nRecent, trend) ==
    [k \in 1..(nOld + nRecent) |->
        PriceRow(IF k <= nOld THEN Today0 - WindowDays - nOld + k - 1
                 ELSE Today0 - nRecent + (k - nOld) - 1,
                 BasePx + trend * Step * k,
                 100 * k)]

HistoryChoices ==
    {History(o, r, t) : o \in {0, NOld}, r \in {0, NRecent}, t \in {1, -1}}

LivePeriod == 2

LivePrices == {BasePx - Swing, BasePx + Swing}

\* history(period='2d', interval='1d'): the row of today, or the rows of
\* yesterday and today, each at one of LivePrices.
LiveChoices(now) ==
    {[i \in 1..Len(ds) |-> PriceRow(ds[i], px[i], 50)] :
        ds \in {<<now>>, <<now - 1, now>>},
        px \in [1..LivePeriod -> LivePrices]}

-----------------------------------------------------------------------------
(* main *)

NoRow == [Date |-> 0]

Line(kind, text) == <<kind, text>>

StartupPcs == {"input", "get_stock_data", "indicators"}

\* The positions inside the try block of the loop (lines 169-179), except
\* the inside of predict_signal.
TryPcs == {"get_live", "update_df", "get_indicator_data", "latest", "print", "sleep"}

Init ==
    /\ pc = "input"
    /\ today = Today0
    /\ df = Frame(<<>>)
    /\ existing = Frame(<<>>)
    /\ live_data = None
    /\ latest = NoRow
    /\ signal = ""
    /\ tickOut = <<>>
    /\ printed = {}
    /\ exitStatus = "running"
    /\ availDates = {}
    /\ indDates = {}
    /\ lastTick = "none"
    /\ interruptAt = ""
    /\ daysPassed = 0
    /\ fetched = "pending"

\* Lines 156-157.
ReadTicker ==
    /\ pc = "input"
    /\ pc' = "get_stock_data"
    /\ printed' = printed \cup {"Initializing analysis"}
    /\ UNCHANGED <<today, df, existing, live_data, latest, signal, tickOut,
                   exitStatus, availDates, indDates, lastTick, interruptAt,
                   daysPassed, fetched>>

\* get_stock_data without the check of line 21.
NeverNoData(rows) == FALSE

\* Line 21: an empty history raises ValueError.
NoDataFound(rows) == Len(rows) = 0

\* Line 160, get_stock_data returning the history.
GetStockData ==
    /\ pc = "get_stock_data"
    /\ \E rows \in HistoryChoices :
          /\ ~NoDataFound(rows)
          /\ df' = Frame(rows)
          /\ availDates' = Dates(rows)
          /\ fetched' = IF Len(rows) = 0 THEN "empty" ELSE "rows"
    /\ pc' = "indicators"
    /\ UNCHANGED <<today, existing, live_data, latest, signal, tickOut, printed,
                   exitStatus, indDates, lastTick, interruptAt, daysPassed>>

\* Line 160, get_stock_data raising: the download raised, or it returned no
\* rows (lines 21-22); lines 40-41 turn either into RuntimeError, which
\* lines 188-190 report before sys.exit(1).
GetStockDataRaises ==
    /\ pc = "get_stock_data"
    /\ \E rows \in HistoryChoices, raised \in BOOLEAN :
          /\ raised \/ NoDataFound(rows)
          /\ availDates' = IF raised THEN {} ELSE Dates(rows)
          /\ fetched' = IF raised THEN "raised" ELSE "empty"
    /\ printed' = printed \cup {"Fatal error"}
    /\ exitStatus' = "exit1"
    /\ pc' = "exited"
    /\ UNCHANGED <<today, df, existing, live_data, latest, signal, tickOut,
                   indDates, lastTick, interruptAt, daysPassed>>

\* Lines 161-166: the first indicator computation, the chart, the banner.
InitialIndicators ==
    /\ pc = "indicators"
    /\ indDates' = Dates(df.rows)
    /\ df' \in get_indicator_data(df, today)
    /\ printed' = printed \cup {"Starting live monitoring"}
    /\ pc' = "get_live"
    /\ UNCHANGED <<today, existing, live_data, latest, signal, tickOut,
                   exitStatus, availDates, lastTick, interruptAt, daysPassed, fetched>>

\* Line 169, get_live: rows, None for an empty answer (lines 113-114), or
\* None after printing the error of a failed download (lines 127-129).
GetLive ==
    /\ pc = "get_live"
    /\ \/ /\ \E rows \in LiveChoices(today) :
                /\ live_data' = Frame(rows)
                /\ availDates' = availDates \cup Dates(rows)
          /\ tickOut' = <<>>
       \/ /\ live_data' = None
          /\ tickOut' = <<>>
          /\ UNCHANGED availDates
       \/ /\ live_data' = None
          /\ tickOut' = <<Line("Live data error", "")>>
          /\ UNCHANGED availDates
    /\ pc' = "update_df"
    /\ UNCHANGED <<today, df, existing, latest, signal, printed, exitStatus,
                   indDates, lastTick, interruptAt, daysPassed, fetched>>

\* Line 170.
UpdateDf ==
    /\ pc = "update_df"
    /\ existing' = df
    /\ df' \in update_df(df, live_data)
    /\ pc' = "get_indicator_data"
    /\ UNCHANGED <<today, live_data, latest, signal, tickOut, printed,
                   exitStatus, availDates, indDates, lastTick, interruptAt,
                   daysPassed, fetched>>

\* Line 171.
GetIndicatorData ==
    /\ pc = "get_indicator_data"
    /\ indDates' = Dates(df.rows)
    /\ df' \in get_indicator_data(df, today)
    /\ existing' = Frame(<<>>)
    /\ pc' = "latest"
    /\ UNCHANGED <<today, live_data, latest, signal, tickOut, printed,
                   exitStatus, availDates, lastTick, interruptAt, daysPassed, fetched>>

\* Line 173: df.iloc[-1] raises IndexError on a frame without rows.
IlocRaises(frame) == Empty(frame)

Latest ==
    /\ pc = "latest"
    /\ ~IlocRaises(df)
    /\ latest' = df.rows[Len(df.rows)]
    /\ pc' = "predict"
    /\ UNCHANGED <<today, df, existing, live_data, signal, tickOut, printed,
                   exitStatus, availDates, indDates, lastTick, interruptAt,
                   daysPassed, fetched>>

\* Line 173 raising with no except clause at line 184: the error reaches
\* line 188 and ends the process.
LatestRaisesFatal ==
    /\ pc = "latest"
    /\ IlocRaises(df)
    /\ printed' = printed \cup {"Fatal error"}
    /\ exitStatus' = "exit1"
    /\ pc' = "exited"
    /\ UNCHANGED <<today, df, existing, live_data, latest, signal, tickOut,
                   availDates, indDates, lastTick, interruptAt, daysPassed,
                   fetched>>

\* Line 173 raising: lines 184-185 print the error, line 186 is next.
LatestRaises ==
    /\ pc = "latest"
    /\ IlocRaises(df)
    /\ tickOut' = Append(tickOut, Line("Monitoring error", "IndexError"))
    /\ pc' = "sleep_err"
    /\ UNCHANGED <<today, df, existing, live_data, latest, signal, printed,
                   exitStatus, availDates, indDates, lastTick, interruptAt,
                   daysPassed, fetched>>

\* Line 174.
PredictSignal ==
    /\ pc = "predict"
    /\ signal' = predict_signal(latest)
    /\ pc' = "print"
    /\ UNCHANGED <<today, df, existing, live_data, latest, tickOut, printed,
                   exitStatus, availDates, indDates, lastTick, interruptAt,
                   daysPassed, fetched>>

\* The print of line 177 made only for a signal other than HOLD.
PrintSignalUnlessHold ==
    /\ pc = "print"
    /\ tickOut' = IF signal = "HOLD" THEN tickOut
                  ELSE Append(tickOut, Line("Signal", signal))
    /\ pc' = "sleep"
    /\ UNCHANGED <<today, df, existing, live_data, latest, signal, printed,
                   exitStatus, availDates, indDates, lastTick, interruptAt,
                   daysPassed, fetched>>

\* Lines 176-177.
PrintSignal ==
    /\ pc = "print"
    /\ tickOut' = Append(tickOut, Line("Signal", signal))
    /\ pc' = "sleep"
    /\ UNCHANGED <<today, df, existing, live_data, latest, signal, printed,
                   exitStatus, availDates, indDates, lastTick, interruptAt,
                   daysPassed, fetched>>

\* While the program sleeps 60 seconds midnight may pass.
Midnight ==
    \/ UNCHANGED <<today, daysPassed>>
    \/ /\ daysPassed < MaxDays
       /\ today' = today + 1
       /\ daysPassed' = daysPassed + 1

\* Line 179 returning: the loop starts the next iteration.
Sleep ==
    /\ pc = "sleep"
    /\ Midnight
    /\ lastTick' = "signal"
    /\ pc' = "get_live"
    /\ UNCHANGED <<df, existing, live_data, latest, signal, tickOut, printed,
                   exitStatus, availDates, indDates, interruptAt, fetched>>

\* Line 186 returning: the loop starts the next iteration.
SleepAfterError ==
    /\ pc = "sleep_err"
    /\ Midnight
    /\ lastTick' = "error"
    /\ pc' = "get_live"
    /\ UNCHANGED <<df, existing, live_data, latest, signal, tickOut, printed,
                   exitStatus, availDates, indDates, interruptAt, fetched>>

\* Whether a KeyboardInterrupt raised at position at is caught by the
\* except clause of line 181.  Line 186 lies in an except clause of the same
\* try statement, which line 181 does not cover; the except Exception of
\* line 188 does not catch KeyboardInterrupt.
CaughtInLoop(at) == at \in TryPcs

\* Ctrl+C inside the try block: lines 181-183, then main returns.
InterruptCaught ==
    /\ pc \in TryPcs \cup StartupPcs \cup {"sleep_err"}
    /\ CaughtInLoop(pc)
    /\ interruptAt' = pc
    /\ printed' = printed \cup {"Monitoring stopped."}
    /\ exitStatus' = "exit0"
    /\ pc' = "exited"
    /\ UNCHANGED <<today, df, existing, live_data, latest, signal, tickOut,
                   availDates, indDates, lastTick, daysPassed, fetched>>

\* Ctrl+C anywhere else in main: nothing catches it, the interpreter prints
\* the traceback and the process ends abnormally.
InterruptUncaught ==
    /\ pc \in TryPcs \cup StartupPcs \cup {"sleep_err"}
    /\ ~CaughtInLoop(pc)
    /\ interruptAt' = pc
    /\ exitStatus' = "KeyboardInterrupt"
    /\ pc' = "exited"
    /\ UNCHANGED <<today, df, existing, live_data, latest, signal, tickOut,
                   printed, availDates, indDates, lastTick, daysPassed, fetched>>

\* Ctrl+C inside predict_signal: the bare except of lines 150-151 swallows
\* it and the signal is HOLD.
InterruptInPredict ==
    /\ pc = "predict"
    /\ interruptAt' = pc
    /\ signal' = "HOLD"
    /\ pc' = "print"
    /\ UNCHANGED <<today, df, existing, live_data, latest, tickOut, printed,
                   exitStatus, availDates, indDates, lastTick, daysPassed, fetched>>

Next ==
    \/ ReadTicker
    \/ GetStockData
    \/ GetStockDataRaises
    \/ InitialIndicators
    \/ GetLive
    \/ UpdateDf
    \/ GetIndicatorData
    \/ Latest
    \/ LatestRaises
    \/ PredictSignal
    \/ PrintSignal
    \/ Sleep
    \/ SleepAfterError
    \/ InterruptCaught
    \/ InterruptUncaught
    \/ InterruptInPredict

Spec == Init /\ [][Next]_vars

-----------------------------------------------------------------------------
(* update_df on its own: every pair of arguments within the bounds *)

\* Longest existing frame.
MaxLen == 3

\* Dates run over 1..MaxDate.
MaxDate == 2

MergePrices == {10, 12}

MergeRows == {PriceRow(d, c, 10 * c) : d \in 1..MaxDate, c \in MergePrices}

SeqsUpTo(S, n) == UNION {[1..k -> S] : k \in 0..n}

MergeInit ==
    /\ pc = "update_df"
    /\ df \in {Frame(rows) : rows \in SeqsUpTo(MergeRows, MaxLen)}
    /\ live_data \in {None} \cup {Frame(rows) : rows \in SeqsUpTo(MergeRows, LivePeriod)}
    /\ today = Today0
    /\ existing = Frame(<<>>)
    /\ latest = NoRow
    /\ signal = ""
    /\ tickOut = <<>>
    /\ printed = {}
    /\ exitStatus = "running"
    /\ availDates = {}
    /\ indDates = {}
    /\ lastTick = "none"
    /\ interruptAt = ""
    /\ daysPassed = 0
    /\ fetched = "rows"

MergeNext == UpdateDf

MergeSpec == MergeInit /\ [][MergeNext]_vars

\* update_df has returned.
MergeDone == pc = "get_indicator_data"

\* live_df is None or has no rows.
NoUpdate(live_df) == live_df.isNone \/ Empty(live_df)

\* Ascending by date, one row a date.
SeriesOrdered(rows) ==
    \A i \in 1..(Len(rows) - 1) : rows[i].Date < rows[i + 1].Date

\* C1 as stated: for every existing and incoming, in whatever order and with
\* whatever dates in common, the result of update_df is sorted ascending by
\* date and holds at most one record a date.
C1_AlwaysOrdered == MergeDone => SeriesOrdered(df.rows)

\* C1 amended: for every existing and every non-empty incoming the result of
\* update_df is sorted ascending by date with at most one record a date; with
\* an empty or unavailable incoming the result is existing itself, ordered
\* and free of duplicates exactly when existing is.
C1_OrderedWhenMerged ==
    MergeDone =>
        IF NoUpdate(live_data)
        THEN SeriesOrdered(df.rows) <=> SeriesOrdered(existing.rows)
        ELSE SeriesOrdered(df.rows)

\* An existing that is out of order and repeats a date was merged with an
\* incoming that has that date too.
C1_Witness ==
    /\ MergeDone
    /\ ~NoUpdate(live_data)
    /\ Len(existing.rows) = 3
    /\ existing.rows[1].Date > existing.rows[2].Date
    /\ existing.rows[1].Date = existing.rows[3].Date
    /\ existing.rows[1].Date \in Dates(live_data.rows)
    /\ Len(df.rows) = 2

\* C2: for every date in both existing and a non-empty incoming, the result
\* of update_df holds exactly one record of that date, and its adjusted close
\* and volume are those of an incoming record of that date.
C2_IncomingWins ==
    (MergeDone /\ ~NoUpdate(live_data)) =>
        \A d \in Dates(existing.rows) \cap Dates(live_data.rows) :
            /\ Cardinality({i \in 1..Len(df.rows) : df.rows[i].Date = d}) = 1
            /\ \A i \in 1..Len(df.rows) :
                  df.rows[i].Date = d =>
                      \E k \in 1..Len(live_data.rows) :
                          /\ live_data.rows[k].Date = d
                          /\ live_data.rows[k].Adj_Close = df.rows[i].Adj_Close
                          /\ live_data.rows[k].Volume = df.rows[i].Volume

\* C8: update_df(S, incoming) with incoming empty or None returns S itself,
\* rows and order, for every S; and for a series S (ordered, one row a date)
\* merge(S, merge(S, empty)) = merge(S, empty) = S.
C8_NothingToMerge ==
    (MergeDone /\ NoUpdate(live_data)) =>
        /\ df = existing
        /\ update_df(df, live_data) = {existing}
        /\ SeriesOrdered(existing.rows) => update_df(existing, df) = {existing}

\* An out-of-order S came back from a merge with nothing.
C8_Witness ==
    /\ MergeDone
    /\ NoUpdate(live_data)
    /\ Len(existing.rows) = 2
    /\ existing.rows[1].Date > existing.rows[2].Date
    /\ df = existing

-----------------------------------------------------------------------------
(* predict_signal on its own: every row within the bounds *)

\* Indicator values run over -MaxMag..MaxMag around their thresholds.
MaxMag == 1

ClosePx == 100

Missing == [k |-> "missing", v |-> 0]

CellChoices(vals) == {Num(x) : x \in vals} \cup {NaN, PyNone, Missing}

Required == {"MACD", "RSI_14", "Adj_Close", "Bollinger_Lower", "Bollinger_Upper"}

RowOf(m, r, c, lo, up) ==
    LET full == [MACD |-> m, RSI_14 |-> r, Adj_Close |-> c,
                 Bollinger_Lower |-> lo, Bollinger_Upper |-> up]
    IN  [col \in {x \in Required : full[x].k # "missing"} |-> full[col]]

SignalRows ==
    {RowOf(m, r, c, lo, up) :
        m \in CellChoices((0 - MaxMag)..MaxMag),
        r \in CellChoices((RsiBuy - MaxMag)..(RsiBuy + MaxMag)
                          \cup (RsiSell - MaxMag)..(RsiSell + MaxMag)),
        c \in CellChoices({ClosePx}),
        lo \in CellChoices((ClosePx - MaxMag)..(ClosePx + MaxMag)),
        up \in CellChoices((ClosePx - MaxMag)..(ClosePx + MaxMag))}

SignalInit ==
    /\ pc = "predict"
    /\ latest \in SignalRows
    /\ df = Frame(<<>>)
    /\ live_data = None
    /\ today = Today0
    /\ existing = Frame(<<>>)
    /\ signal = ""
    /\ tickOut = <<>>
    /\ printed = {}
    /\ exitStatus = "running"
    /\ availDates = {}
    /\ indDates = {}
    /\ lastTick = "none"
    /\ interruptAt = ""
    /\ daysPassed = 0
    /\ fetched = "rows"

SignalNext == PredictSignal

SignalSpec == SignalInit /\ [][SignalNext]_vars

\* predict_signal has returned.
PredictDone == pc = "print"

Defined(row, col) == col \in DOMAIN row /\ row[col].k = "num"

AllDefined(row) == \A col \in Required : Defined(row, col)

\* C4: on a record whose five fields are all defined, predict_signal returns
\* BUY exactly when macd > 0, rsi14 < 40 and adjustedClose <= bollingerLower;
\* otherwise SELL exactly when macd < 0, rsi14 > 60 and adjustedClose >=
\* bollingerUpper; otherwise HOLD.
C4_RulesInOrder ==
    (PredictDone /\ AllDefined(latest)) =>
        signal = IF /\ latest.MACD.v > 0
                    /\ latest.RSI_14.v < 40
                    /\ latest.Adj_Close.v <= latest.Bollinger_Lower.v
                 THEN "BUY"
                 ELSE IF /\ latest.MACD.v < 0
                         /\ latest.RSI_14.v > 60
                         /\ latest.Adj_Close.v >= latest.Bollinger_Upper.v
                      THEN "SELL"
                      ELSE "HOLD"

\* BUY was returned for a close exactly on the lower band.
C4_Witness ==
    /\ PredictDone
    /\ AllDefined(latest)
    /\ latest.Adj_Close.v = latest.Bollinger_Lower.v
    /\ signal = "BUY"

\* C5: predict_signal returns one of BUY, SELL, HOLD for any record, and HOLD
\* whenever one of the five required fields is undefined or missing.
C5_UndefinedMeansHold ==
    PredictDone =>
        /\ signal \in {"BUY", "SELL", "HOLD"}
        /\ ~AllDefined(latest) => signal = "HOLD"

-----------------------------------------------------------------------------
(* Claims about main *)

Count(lines, kind) == Cardinality({i \in 1..Len(lines) : lines[i][1] = kind})

\* C3: on every polling tick the indicators are computed from the full
\* available history: the rows read by the indicator computation of the tick
\* are the rows of every date the data source has delivered.
C3_FullHistory == pc = "latest" => indDates = availDates

\* C6: an error raised inside an iteration does not end the loop and does
\* not escape it: the error is printed, the loop sleeps, and when the sleep
\* returns the next iteration starts; once the loop runs, nothing but a user
\* interrupt ends the process.
C6_ErrorKeepsLooping ==
    [][/\ (pc = "latest" /\ IlocRaises(df) /\ interruptAt' = interruptAt) =>
              /\ pc' = "sleep_err"
              /\ exitStatus' = "running"
              /\ tickOut' = Append(tickOut, Line("Monitoring error", "IndexError"))
       /\ (pc = "sleep_err" /\ interruptAt' = interruptAt) =>
              /\ pc' = "get_live"
              /\ exitStatus' = "running"
       /\ (pc \in TryPcs \cup {"predict", "sleep_err"} /\ pc' = "exited") =>
              interruptAt' = pc]_vars

\* An iteration ended in an error and the next one has fetched live data.
C6_Witness ==
    /\ lastTick = "error"
    /\ pc = "update_df"
    /\ exitStatus = "running"

\* C7: a user interrupt during the wait after a successful iteration or
\* during the wait after a failed one is caught: "Monitoring stopped." is
\* printed and the process ends with exit code 0.
C7_InterruptInAnyWait ==
    (pc = "exited" /\ interruptAt \in {"sleep", "sleep_err"}) =>
        /\ exitStatus = "exit0"
        /\ "Monitoring stopped." \in printed

\* C9: when the historical download returns no rows the process prints the
\* diagnostic and ends with exit code 1; the loop is never entered and no
\* signal is computed or printed.
C9_NoHistoryIsFatal ==
    fetched = "empty" =>
        /\ pc = "exited"
        /\ exitStatus = "exit1"
        /\ "Fatal error" \in printed
        /\ "Starting live monitoring" \notin printed
        /\ tickOut = <<>>
        /\ signal = ""

\* The download returned no rows and the process has ended.
C9_Witness ==
    /\ fetched = "empty"
    /\ pc = "exited"
    /\ exitStatus = "exit1"

\* C10 as stated: every tick, the ticks with an error inside the iteration
\* included, prints exactly one Signal line.
C10_OneSignalLineEveryTick ==
    pc \in {"sleep", "sleep_err"} => Count(tickOut, "Signal") = 1

\* C10 amended: a tick whose iteration reaches its sleep without an error
\* prints exactly one Signal line, with BUY, SELL or HOLD, also when the live
\* fetch failed or returned nothing; a tick with an error inside the
\* iteration prints no Signal line and one "Monitoring error" line.
C10_OneSignalLineUnlessError ==
    /\ pc = "sleep" =>
          /\ Count(tickOut, "Signal") = 1
          /\ Count(tickOut, "Monitoring error") = 0
          /\ tickOut[Len(tickOut)] \in {Line("Signal", x) : x \in {"BUY", "SELL", "HOLD"}}
    /\ pc = "sleep_err" =>
          /\ Count(tickOut, "Signal") = 0
          /\ Count(tickOut, "Monitoring error") = 1

\* A tick whose live fetch failed has printed its Signal line.
C10_Witness ==
    /\ pc = "sleep"
    /\ Count(tickOut, "Live data error") = 1
    /\ Count(tickOut, "Signal") = 1

=============================================================================
